---- MODULE Spec2Model ----
(***************************************************************************)
(* Barnes-Hut n-body simulation (tonya11en/nbody): the octree of           *)
(* src/geometry/bh_tree.rs, the body algebra of src/geometry/vec3d.rs and  *)
(* the step driver of src/main.rs.                                         *)
(*                                                                         *)
(* Arithmetic.  The program computes in f64.  A number of the model is     *)
(* <<n, d, k>>, standing for (n/d) * H^k with n/d a rational in lowest     *)
(* terms (d > 0) and H one fixed power of two far beyond the 53 bits of an *)
(* f64 significand (H = 2^100, say).  Within one scale k the arithmetic is *)
(* exact, as f64 is on operands of few significant bits.  Across scales    *)
(* the sum of two numbers is the one of the larger scale: f64 rounds       *)
(* x + y to x when |y| is below half an ulp of x (absorption), which is    *)
(* what max_dim + 1. does to a coordinate of 2.36e88.  Square roots are    *)
(* taken exactly: comparisons against a distance are made on the squares,  *)
(* and the force law is evaluated on collinear bodies only, where every    *)
(* distance is rational.                                                   *)
(*                                                                         *)
(* Units.  The code's numbers carry no units.  The model keeps the metre   *)
(* and measures mass in units of M = c^2/(4G) kg, time in units of         *)
(* T = (2/c)^(2/3) s, velocity in metres per T and force in units of       *)
(* G*M^2 N.  Every formula of the code keeps its form in these units with  *)
(* G = 1 and C = 2 (G*M*T^3 = 1 in apply_force's force/mass*dt*dt, and     *)
(* 2*G*M/c^2 = 1/2 in the merge radius), so a run of the model is the run  *)
(* of the program on masses m*M, velocities v/T and time step dt*T, and    *)
(* small integer masses meet and miss each other on a small integer grid.  *)
(***************************************************************************)
EXTENDS Integers, Sequences, FiniteSets, TLC

----------------------------------------------------------------------------
(* f64 arithmetic: exact within a scale, absorbing across scales           *)

Abs(i) == IF i < 0 THEN -i ELSE i

RECURSIVE GCD(_, _)
GCD(a, b) == IF b = 0 THEN a ELSE GCD(b, a % b)

\* (n/d) * H^k in lowest terms with a positive denominator; zero has scale 0
Norm(n, d, k) ==
    IF n = 0 THEN <<0, 1, 0>>
    ELSE LET g == GCD(Abs(n), Abs(d))
             s == IF d < 0 THEN -1 ELSE 1
         IN  <<(s * n) \div g, (s * d) \div g, k>>

R(i) == <<i, 1, 0>>
Zero == R(0)
One == R(1)
RNeg(a) == <<-a[1], a[2], a[3]>>
RAdd(a, b) ==
    IF a[1] = 0 THEN b
    ELSE IF b[1] = 0 THEN a
    ELSE IF a[3] > b[3] THEN a
    ELSE IF b[3] > a[3] THEN b
    ELSE Norm(a[1] * b[2] + b[1] * a[2], a[2] * b[2], a[3])
RSub(a, b) == RAdd(a, RNeg(b))
RMul(a, b) == Norm(a[1] * b[1], a[2] * b[2], a[3] + b[3])
RDiv(a, b) == Norm(a[1] * b[2], a[2] * b[1], a[3] - b[3])
Sign(a) == IF a[1] > 0 THEN 1 ELSE IF a[1] < 0 THEN -1 ELSE 0
\* a < b: by sign, then by scale, then by n/d
RLt(a, b) ==
    IF Sign(a) # Sign(b) THEN Sign(a) < Sign(b)
    ELSE IF Sign(a) = 0 THEN FALSE
    ELSE IF a[3] # b[3]
         THEN IF Sign(a) > 0 THEN a[3] < b[3] ELSE a[3] > b[3]
    ELSE a[1] * b[2] < b[1] * a[2]
RLe(a, b) == a = b \/ RLt(a, b)
RMin(a, b) == IF RLt(b, a) THEN b ELSE a
RMax(a, b) == IF RLt(a, b) THEN b ELSE a
RSq(a) == RMul(a, a)

\* the exact non-negative root of a number whose n, d are perfect squares and
\* whose scale is even
RECURSIVE FloorSqrt(_, _, _)
FloorSqrt(n, lo, hi) ==
    IF lo >= hi THEN lo
    ELSE LET mid == (lo + hi + 1) \div 2
         IN  IF mid * mid <= n THEN FloorSqrt(n, mid, hi)
             ELSE FloorSqrt(n, lo, mid - 1)
ISqrt(n) == CHOOSE r \in {FloorSqrt(n, 0, IF n < 46340 THEN n ELSE 46340)} : r * r = n
RSqrt(a) == <<ISqrt(a[1]), ISqrt(a[2]), a[3] \div 2>>

----------------------------------------------------------------------------
(* vec3d.rs: constants, Vec3d, Point                                       *)

\* const G, in model units (see Units above)
G == 1
\* const C, in model units
C == 2

Vec3d_new(x, y, z) == [x |-> x, y |-> y, z |-> z]
Vec3d_new_zero == Vec3d_new(Zero, Zero, Zero)
\* impl Add<Vec3d> for Vec3d, and AddAssign
Vec3d_add(v, rhs) == Vec3d_new(RAdd(v.x, rhs.x), RAdd(v.y, rhs.y), RAdd(v.z, rhs.z))
\* impl Mul<f64> for Vec3d and Mul<Vec3d> for f64
Vec3d_mul(v, s) == Vec3d_new(RMul(s, v.x), RMul(s, v.y), RMul(s, v.z))
\* impl Div<f64> for Vec3d
Vec3d_div(v, s) == Vec3d_new(RDiv(v.x, s), RDiv(v.y, s), RDiv(v.z, s))

Point_new(mass, x, y, z, velocity) ==
    [mass |-> mass, vel |-> velocity, x |-> x, y |-> y, z |-> z,
     schwarzchild_radius |->
         RDiv(RMul(RMul(R(2), R(G)), mass), RMul(R(C), R(C)))]

Point_new_zero == Point_new(Zero, Zero, Zero, Zero, Vec3d_new_zero)

\* the square of distance_to: x*x + y*y + z*z before the sqrt
distance_sq(p, other) ==
    LET x == RSub(other.x, p.x)
        y == RSub(other.y, p.y)
        z == RSub(other.z, p.z)
    IN  RAdd(RAdd(RMul(x, x), RMul(y, y)), RMul(z, z))

distance_to(p, other) == RSqrt(distance_sq(p, other))

apply_force(p, dt, force) ==
    LET a == Vec3d_mul(Vec3d_div(force, p.mass), dt)
        v == Vec3d_add(p.vel, Vec3d_mul(a, dt))
    IN  Point_new(p.mass,
                  RAdd(p.x, RMul(v.x, dt)),
                  RAdd(p.y, RMul(v.y, dt)),
                  RAdd(p.z, RMul(v.z, dt)),
                  v)

force_from(self, p) ==
    LET dist == distance_to(self, p)
        f == RDiv(RMul(RMul(R(G), self.mass), p.mass), RMul(dist, dist))
    IN  Vec3d_new(RMul(RDiv(RSub(p.x, self.x), dist), f),
                  RMul(RDiv(RSub(p.y, self.y), dist), f),
                  RMul(RDiv(RSub(p.z, self.z), dist), f))

----------------------------------------------------------------------------
(* bh_tree.rs: BHNode                                                      *)

\* Option<Point>: <<>> is None, <<p>> is Some(p)
None == <<>>
Some(p) == <<p>>

\* f64::MAX and f64::MIN absorb next()'s margin of 1, and MIN - MAX is -inf;
\* the three are kept as values with denominator 0 that no arithmetic touches
F64Max == <<1, 0, 0>>
NegInf == <<-1, 0, 0>>
IsFinite(a) == a[2] # 0

BHNode_new(theta, region_size, x, y, z) ==
    [theta |-> theta, center_of_mass |-> Point_new_zero,
     region_size |-> region_size, xloc |-> x, yloc |-> y, zloc |-> z,
     children |-> <<>>, count |-> 0, point |-> None]

\* should_merge requiring both radii to cover the distance
should_merge_both(p1, p2) ==
    LET dist2 == distance_sq(p1, p2)
    IN  /\ RLe(dist2, RSq(p1.schwarzchild_radius))
        /\ RLe(dist2, RSq(p2.schwarzchild_radius))

should_merge(p1, p2) ==
    LET dist2 == distance_sq(p1, p2)
    IN  \/ RLe(dist2, RSq(p1.schwarzchild_radius))
        \/ RLe(dist2, RSq(p2.schwarzchild_radius))

\* (loc..(loc + region_size)).contains(&v); a range that ends at -inf is empty
RangeContains(loc, region_size, v) ==
    /\ IsFinite(loc)
    /\ IsFinite(region_size)
    /\ RLe(loc, v)
    /\ RLt(v, RAdd(loc, region_size))

\* add_to_child's xcontains && ycontains && zcontains
ChildContains(child, p) ==
    /\ RangeContains(child.xloc, child.region_size, p.x)
    /\ RangeContains(child.yloc, child.region_size, p.y)
    /\ RangeContains(child.zloc, child.region_size, p.z)

\* the running centre of mass with the old position not weighted by old_mass
UpdateCenterOfMass_unweighted(com, p) ==
    LET new_mass == RAdd(com.mass, p.mass)
        new_vel == Vec3d_div(Vec3d_add(Vec3d_mul(com.vel, com.mass),
                                       Vec3d_mul(p.vel, p.mass)), new_mass)
    IN  Point_new(new_mass,
                  RDiv(RAdd(com.x, RMul(p.x, p.mass)), new_mass),
                  RDiv(RAdd(com.y, RMul(p.y, p.mass)), new_mass),
                  RDiv(RAdd(com.z, RMul(p.z, p.mass)), new_mass),
                  new_vel)

\* the first lines of add_point: the running centre of mass
UpdateCenterOfMass(com, p) ==
    LET old_mass == com.mass
        new_mass == RAdd(com.mass, p.mass)
        new_vel == Vec3d_div(Vec3d_add(Vec3d_mul(com.vel, old_mass),
                                       Vec3d_mul(p.vel, p.mass)), new_mass)
    IN  Point_new(new_mass,
                  RDiv(RAdd(RMul(old_mass, com.x), RMul(p.x, p.mass)), new_mass),
                  RDiv(RAdd(RMul(old_mass, com.y), RMul(p.y, p.mass)), new_mass),
                  RDiv(RAdd(RMul(old_mass, com.z), RMul(p.z, p.mass)), new_mass),
                  new_vel)

split(node) ==
    LET child_region == IF IsFinite(node.region_size)
                        THEN RDiv(node.region_size, R(2))
                        ELSE node.region_size
        Hi(loc) == IF IsFinite(loc) /\ IsFinite(child_region)
                   THEN RAdd(loc, child_region)
                   ELSE NegInf
        xs == <<node.xloc, Hi(node.xloc)>>
        ys == <<node.yloc, Hi(node.yloc)>>
        zs == <<node.zloc, Hi(node.zloc)>>
    IN  [node EXCEPT !.children =
            [i \in 1..8 |->
                BHNode_new(node.theta, child_region,
                           xs[((i - 1) \div 4) + 1],
                           ys[(((i - 1) \div 2) % 2) + 1],
                           zs[((i - 1) % 2) + 1])]]

RECURSIVE SumCounts(_)
SumCounts(children) ==
    IF children = <<>> THEN 0
    ELSE Head(children).count + SumCounts(Tail(children))

\* F(x) with x evaluated once, as a let binding of the code is
Let1(x, F(_)) == CHOOSE y \in {F(v) : v \in {x}} : TRUE

\* add_point and add_to_child return the node after the call, the points that
\* add_to_child logged with warn! and whether the call panicked
RECURSIVE add_point(_, _)
RECURSIVE add_to_child(_, _)

\* add_to_child on a node whose child i contains p: return child.add_point(p)
AddToChildAt(node, i, p) ==
    Let1(add_point(node.children[i], p), LAMBDA r :
        [node |-> [node EXCEPT !.children[i] = r.node],
         warned |-> r.warned, panic |-> r.panic])

add_to_child(node0, p) ==
    Let1(node0, LAMBDA node :
        LET hits == {i \in 1..Len(node.children) : ChildContains(node.children[i], p)}
        IN  IF hits = {}
            THEN [node |-> node, warned |-> <<p>>, panic |-> FALSE]
            ELSE AddToChildAt(node, CHOOSE j \in hits : \A k \in hits : j <= k, p))

\* the tail of add_point: route p, then recount from the children
RouteAndRecount(node, p, warned, panic) ==
    Let1(add_to_child(node, p), LAMBDA r :
        [node |-> [r.node EXCEPT !.count = SumCounts(r.node.children)],
         warned |-> warned \o r.warned,
         panic |-> panic \/ r.panic])

\* add_point's count == 2 branch without a merge: split, move the stored
\* point into a child, then fall through to the tail
SplitAndRoute(n1, p) ==
    Let1(add_to_child(split(n1), n1.point[1]), LAMBDA r :
        IF r.panic
        THEN [node |-> [r.node EXCEPT !.point = None], warned |-> r.warned, panic |-> TRUE]
        ELSE RouteAndRecount([r.node EXCEPT !.point = None], p, r.warned, FALSE))

add_point(node, p) ==
    Let1([node EXCEPT !.center_of_mass = UpdateCenterOfMass(node.center_of_mass, p),
                      !.count = node.count + 1],
         LAMBDA n1 :
        IF n1.count = 1
        THEN [node |-> [n1 EXCEPT !.point = Some(p)], warned |-> <<>>, panic |-> FALSE]
        ELSE IF n1.count = 2 /\ n1.children = <<>>
        THEN IF n1.point = None
             THEN [node |-> n1, warned |-> <<>>, panic |-> TRUE]
             ELSE IF should_merge(n1.point[1], p)
             THEN [node |-> [n1 EXCEPT !.point = Some(n1.center_of_mass),
                                       !.count = n1.count - 1],
                   warned |-> <<>>, panic |-> FALSE]
             ELSE SplitAndRoute(n1, p)
        ELSE RouteAndRecount(n1, p, <<>>, FALSE))

\* get_points returns the bodies, or panics on expect("point")
RECURSIVE get_points(_)
RECURSIVE ChildrenPoints(_, _)

\* the loop of get_points over the children, acc the vector v so far
ChildrenPoints(children, acc) ==
    IF children = <<>> \/ acc.panic THEN acc
    ELSE IF Head(children).count > 0
    THEN Let1(get_points(Head(children)), LAMBDA here :
             ChildrenPoints(Tail(children),
                            [pts |-> acc.pts \o here.pts, panic |-> here.panic]))
    ELSE ChildrenPoints(Tail(children), acc)

get_points(node) ==
    IF node.children = <<>>
    THEN IF node.point = None
         THEN [pts |-> <<>>, panic |-> TRUE]
         ELSE [pts |-> <<node.point[1]>>, panic |-> FALSE]
    ELSE ChildrenPoints(node.children, [pts |-> <<>>, panic |-> FALSE])

\* ratio < theta, with ratio = region_size / distance: on the squares, both
\* sides being positive; a ratio of +inf (distance 0) is not below theta and
\* a ratio of -inf (a region of -inf) is
RatioBelowTheta(node, p) ==
    LET d2 == distance_sq(node.center_of_mass, p)
    IN  IF ~IsFinite(node.region_size) THEN TRUE
        ELSE IF d2 = Zero THEN FALSE
        ELSE RLt(RSq(node.region_size), RMul(RSq(node.theta), d2))

RECURSIVE calculate_force(_, _)
RECURSIVE ChildrenForce(_, _)

ChildrenForce(children, p) ==
    IF children = <<>> THEN Vec3d_new_zero
    ELSE Vec3d_add(calculate_force(Head(children), p),
                   ChildrenForce(Tail(children), p))

calculate_force(node, p) ==
    IF p = node.center_of_mass \/ node.count = 0
    THEN Vec3d_new_zero
    ELSE IF RatioBelowTheta(node, p)
    THEN force_from(p, node.center_of_mass)
    ELSE ChildrenForce(node.children, p)

----------------------------------------------------------------------------
(* bh_tree.rs: BHTree                                                      *)

BHTree_new(theta, graph_size, x, y, z) ==
    [root |-> BHNode_new(theta, graph_size, x, y, z),
     theta |-> theta, graph_size |-> graph_size]

\* the for loops of next() and main(): add_point on every point in order
RECURSIVE AddAll(_, _, _)
AddAll(root, pts, warned) ==
    IF pts = <<>> THEN [node |-> root, warned |-> warned, panic |-> FALSE]
    ELSE Let1(add_point(root, Head(pts)), LAMBDA r :
             IF r.panic
             THEN [node |-> r.node, warned |-> warned \o r.warned, panic |-> TRUE]
             ELSE Let1(Tail(pts), LAMBDA rest :
                      Let1(warned \o r.warned, LAMBDA w : AddAll(r.node, rest, w))))

\* next(): min_dim over every coordinate of every updated point, from f64::MAX
RECURSIVE MinDim(_)
MinDim(pts) ==
    IF pts = <<>> THEN F64Max
    ELSE LET p == Head(pts)
             m == RMin(p.z, RMin(p.y, p.x))
             rest == MinDim(Tail(pts))
         IN  IF IsFinite(rest) THEN RMin(m, rest) ELSE m

\* next(): max_dim, from f64::MIN (-f64::MAX, which the model never reads)
RECURSIVE MaxDim(_)
MaxDim(pts) ==
    IF pts = <<>> THEN NegInf
    ELSE LET p == Head(pts)
             m == RMax(p.z, RMax(p.y, p.x))
             rest == MaxDim(Tail(pts))
         IN  IF IsFinite(rest) THEN RMax(m, rest) ELSE m

\* the par_iter().map() of next(): each body moved by the force of the old tree
NewPoints(tree, dt, pts) ==
    [i \in 1..Len(pts) |-> apply_force(pts[i], dt, calculate_force(tree.root, pts[i]))]

\* next() after the new point set is collected: the cube, the new tree, the
\* re-insertion
Rebuild(tree, old_points, new_points_iter) ==
    LET max_dim == IF new_points_iter = <<>> THEN NegInf
                   ELSE RAdd(MaxDim(new_points_iter), One)
        min_dim == IF new_points_iter = <<>> THEN F64Max
                   ELSE RSub(MinDim(new_points_iter), One)
        graph_size == IF new_points_iter = <<>> THEN NegInf ELSE RSub(max_dim, min_dim)
    IN  Let1(BHTree_new(tree.theta, graph_size, min_dim, min_dim, min_dim), LAMBDA bht0 :
            Let1(AddAll(bht0.root, new_points_iter, <<>>), LAMBDA r :
                [tree |-> [bht0 EXCEPT !.root = r.node],
                 old_points |-> old_points,
                 new_points |-> new_points_iter,
                 warned |-> r.warned,
                 panic |-> r.panic]))

BHTree_next(tree, dt) ==
    Let1(get_points(tree.root), LAMBDA got :
        IF got.panic
        THEN [tree |-> tree, old_points |-> <<>>, new_points |-> <<>>,
              warned |-> <<>>, panic |-> TRUE]
        ELSE Let1(NewPoints(tree, dt, got.pts), LAMBDA new_points_iter :
                 Rebuild(tree, got.pts, new_points_iter)))

----------------------------------------------------------------------------
(* State                                                                   *)

VARIABLES
    bht,        \* the BHTree under construction or in use
    inserted,   \* the points passed to add_point on bht, in order
    warned,     \* the points logged by add_to_child's warn!
    status,     \* "ok", or "panicked" once a call has panicked
    steps,      \* the number of next() calls made
    last_next,  \* <<>>, or the record of the next() call that built bht
    applied,    \* <<>>, or one apply_force call: its arguments and its result
    pc,         \* where main is: "idle" (not run), "write", "next", "exited_ok",
                \* "exited_err"
    t,          \* main's loop variable
    writers     \* the threads write_to_csv has spawned, in spawn order

treevars == <<bht, inserted, warned, status, steps, last_next>>
mainvars == <<pc, t, writers>>
vars == <<bht, inserted, warned, status, steps, last_next, applied, pc, t, writers>>

\* the most add_point calls made on one tree by its user
MaxPoints == 3
\* the most next() calls in a run
MaxSteps == 1

Half == <<1, 2, 0>>
Thetas == {Half, One}

\* the region of every tree built with BHTree::new: [0, 4) on each axis
InitialTree(theta) == BHTree_new(theta, R(4), Zero, Zero, Zero)

Body(m, x, y, z, vx, vy, vz) ==
    Point_new(R(m), R(x), R(y), R(z), Vec3d_new(R(vx), R(vy), R(vz)))

\* bodies in and around the region; merge radii are 1/2, 1 and 2 for masses
\* 1, 2 and 4
Bodies ==
    { Body(1, 0, 0, 0,  0, 0, 0),
      Body(1, 1, 0, 0,  1, 0, 0),
      Body(2, 1, 1, 1,  0, 1, 0),
      Body(4, 3, 1, 1,  0, 0, 0),
      Body(1, 3, 3, 3, -1, 0, 2),
      Body(2, 0, 1, 0,  0, 0, 0),
      Body(1, 5, 1, 1,  0, 0, 0),
      Body(1, 1, 1, 4,  0, 0, 1),
      Body(1, -1, 2, 2, 0, 0, 0) }

TreeInit ==
    /\ \E theta \in Thetas : bht = InitialTree(theta)
    /\ inserted = <<>>
    /\ warned = <<>>
    /\ status = "ok"
    /\ steps = 0
    /\ last_next = <<>>
    /\ applied = <<>>
    /\ pc = "idle"
    /\ t = 0
    /\ writers = <<>>

\* BHTree::add_point
AddPointOf(p) ==
    /\ status = "ok"
    /\ Len(inserted) < MaxPoints
    /\ \E r \in {add_point(bht.root, p)} :
           /\ bht' = [bht EXCEPT !.root = r.node]
           /\ warned' = warned \o r.warned
           /\ status' = IF r.panic THEN "panicked" ELSE "ok"
    /\ inserted' = Append(inserted, p)
    /\ UNCHANGED <<steps, last_next, applied, pc, t, writers>>

AddPoint == \E p \in Bodies : AddPointOf(p)

Init == TreeInit
Next == AddPoint
Spec == Init /\ [][Next]_vars

----------------------------------------------------------------------------
(* Stepping: bodies on the line y = z = 1, moving along it, so that every  *)
(* distance the force law takes the root of is rational                    *)

Huge == <<1, 1, 1>>

LineBody(mass, x, vx) ==
    Point_new(mass, R(x), One, One, Vec3d_new(R(vx), Zero, Zero))

\* in the region but for the last; the body of mass H has a merge radius
\* that covers the whole region, like the 1e99 of merge_test
LineBodies ==
    { LineBody(R(1), 0, 0),
      LineBody(R(1), 1, 0),
      LineBody(R(2), 3, -1),
      LineBody(R(8), 3, 0),
      LineBody(Huge, 3, 0),
      LineBody(R(1), 5, 0) }

Dts == {Half, One}

AddLinePoint == \E p \in LineBodies : AddPointOf(p)

\* bht = bht.next(dt): the tree replaced by the one next() returns, or the
\* panic of get_points
ReplaceByNext(dt) ==
    /\ \E r \in {BHTree_next(bht, dt)} :
           IF r.panic
           THEN /\ status' = "panicked"
                /\ UNCHANGED <<bht, inserted, warned, last_next>>
           ELSE /\ bht' = r.tree
                /\ inserted' = r.new_points
                /\ warned' = warned \o r.warned
                /\ last_next' = [dt |-> dt, old_points |-> r.old_points,
                                 new_points |-> r.new_points, warned |-> r.warned]
                /\ status' = "ok"
    /\ steps' = steps + 1

\* BHTree::next
NextStepOf(dt) ==
    /\ status = "ok"
    /\ steps < MaxSteps
    /\ ReplaceByNext(dt)
    /\ UNCHANGED <<applied, pc, t, writers>>

NextStep == \E dt \in Dts : NextStepOf(dt)

StepNext == AddLinePoint \/ NextStep
SpecStep == TreeInit /\ [][StepNext]_vars

----------------------------------------------------------------------------
(* apply_force on its own: a body, a time step and a force drawn from      *)
(* small sets                                                              *)

ApplyBodies ==
    { Body(1, 0, 0, 0,  0, 0, 0),
      Body(2, 1, 0, 3,  1, -1, 0),
      Body(4, -1, 2, 2, 0, 0, 2) }

ApplyDts == {Zero, Half, One, R(2)}

Forces ==
    { Vec3d_new_zero,
      Vec3d_new(One, Zero, Zero),
      Vec3d_new(R(-2), R(4), Zero),
      Vec3d_new(Zero, Half, R(-1)),
      Vec3d_new(R(3), R(3), R(3)) }

ApplyInit ==
    /\ bht = InitialTree(Half)
    /\ inserted = <<>>
    /\ warned = <<>>
    /\ status = "ok"
    /\ steps = 0
    /\ last_next = <<>>
    /\ \E p \in ApplyBodies, dt \in ApplyDts, force \in Forces :
           applied = [p |-> p, dt |-> dt, force |-> force, out |-> None]
    /\ pc = "idle"
    /\ t = 0
    /\ writers = <<>>

\* Point::apply_force
ApplyForce ==
    /\ applied.out = None
    /\ applied' = [applied EXCEPT
                       !.out = Some(apply_force(applied.p, applied.dt, applied.force))]
    /\ UNCHANGED <<treevars, mainvars>>

SpecApply == ApplyInit /\ [][ApplyForce]_vars

----------------------------------------------------------------------------
(* main.rs: the step loop, and the threads write_to_csv spawns             *)

\* const THETA
THETA == Half
\* const TIME_STEP, in model time units
TIME_STEP == One
\* const STEPS, cut down to the loop iterations the model runs
STEPS == 2

\* the bodies main inserts: inside the region, as main draws them
MainBodies ==
    { LineBody(R(1), 0, 0),
      LineBody(R(1), 1, 0),
      LineBody(R(2), 3, -1),
      LineBody(R(8), 3, 0) }

\* write_to_csv's record_v: one row of 7 numbers for each enumerated body
\* (to_string is one-to-one on them)
Records(pts) ==
    [i \in 1..Len(pts) |->
        <<pts[i].mass, pts[i].x, pts[i].y, pts[i].z,
          pts[i].vel.x, pts[i].vel.y, pts[i].vel.z>>]

\* main up to its step loop: the tree built and filled
MainInit ==
    /\ \E p1 \in MainBodies, p2 \in MainBodies :
           \E r \in {AddAll(InitialTree(THETA).root, <<p1, p2>>, <<>>)} :
               /\ bht = [InitialTree(THETA) EXCEPT !.root = r.node]
               /\ inserted = <<p1, p2>>
               /\ warned = r.warned
    /\ status = "ok"
    /\ steps = 0
    /\ last_next = <<>>
    /\ applied = <<>>
    /\ pc = "write"
    /\ t = 0
    /\ writers = <<>>

Running == pc \in {"write", "next"}

\* bht.write_to_csv(filepath)? returning Ok: the file created, the header
\* and the rows buffered, the writer thread spawned and not joined
MainWriteToCsv ==
    /\ pc = "write"
    /\ t < STEPS
    /\ status = "ok"
    /\ \E got \in {get_points(bht.root)} :
           IF got.panic
           THEN /\ status' = "panicked"
                /\ pc' = "exited_err"
                /\ UNCHANGED writers
           ELSE /\ writers' = Append(writers,
                                     [file |-> t, records |-> Records(got.pts),
                                      written |-> 0, flushed |-> FALSE])
                /\ pc' = "next"
                /\ UNCHANGED status
    /\ UNCHANGED <<bht, inserted, warned, steps, last_next, applied, t>>

\* bht.write_to_csv(filepath)? returning Err (the file cannot be created or
\* the header not written): main returns the error
MainWriteToCsvErr ==
    /\ pc = "write"
    /\ t < STEPS
    /\ pc' = "exited_err"
    /\ UNCHANGED <<treevars, applied, t, writers>>

\* bht = bht.next(TIME_STEP), and the loop's increment
MainNext ==
    /\ pc = "next"
    /\ ReplaceByNext(TIME_STEP)
    /\ pc' = IF status' = "panicked" THEN "exited_err" ELSE "write"
    /\ t' = t + 1
    /\ UNCHANGED <<applied, writers>>

\* return Ok(()) after the loop: the process exits with main
MainReturn ==
    /\ pc = "write"
    /\ t = STEPS
    /\ pc' = "exited_ok"
    /\ UNCHANGED <<treevars, applied, t, writers>>

\* the spawned closure, one wtr.write_record(record) at a time, while the
\* process lives
WriterWriteRecord(i) ==
    /\ Running
    /\ writers[i].written < Len(writers[i].records)
    /\ writers' = [writers EXCEPT ![i].written = @ + 1]
    /\ UNCHANGED <<treevars, applied, pc, t>>

\* the closure's wtr.flush(), after the last record
WriterFlush(i) ==
    /\ Running
    /\ writers[i].written = Len(writers[i].records)
    /\ ~writers[i].flushed
    /\ writers' = [writers EXCEPT ![i].flushed = TRUE]
    /\ UNCHANGED <<treevars, applied, pc, t>>

WriterStep == \E i \in 1..Len(writers) : WriterWriteRecord(i) \/ WriterFlush(i)

MainNextAction ==
    \/ MainWriteToCsv
    \/ MainWriteToCsvErr
    \/ MainNext
    \/ MainReturn
    \/ WriterStep
SpecMain == MainInit /\ [][MainNextAction]_vars

----------------------------------------------------------------------------
(* Quantities the claims are stated in                                     *)

RECURSIVE TotalMass(_)
TotalMass(pts) ==
    IF pts = <<>> THEN Zero ELSE RAdd(Head(pts).mass, TotalMass(Tail(pts)))

\* the sums of m*x, m*y, m*z (first moments) and of m*v (momenta) over pts
RECURSIVE MassMoment(_)
MassMoment(pts) ==
    IF pts = <<>> THEN Vec3d_new_zero
    ELSE LET p == Head(pts)
         IN  Vec3d_add(Vec3d_new(RMul(p.mass, p.x), RMul(p.mass, p.y), RMul(p.mass, p.z)),
                       MassMoment(Tail(pts)))

RECURSIVE Momentum(_)
Momentum(pts) ==
    IF pts = <<>> THEN Vec3d_new_zero
    ELSE Vec3d_add(Vec3d_mul(Head(pts).vel, Head(pts).mass), Momentum(Tail(pts)))

PositionOf(p) == Vec3d_new(p.x, p.y, p.z)

\* the distance of a and b is at most the merge radius of one of them
WithinMergeRadius(a, b) ==
    \/ RLe(distance_sq(a, b), RSq(a.schwarzchild_radius))
    \/ RLe(distance_sq(a, b), RSq(b.schwarzchild_radius))

NoCloseEncounter(pts) ==
    \A i, j \in 1..Len(pts) : i < j => ~WithinMergeRadius(pts[i], pts[j])

\* p lies in the root cube [loc, loc + region_size) of the tree
InRegion(tree, p) == ChildContains(tree.root, p)
AllInRegion(tree, pts) == \A i \in 1..Len(pts) : InRegion(tree, pts[i])

RECURSIVE NodeWellFormed(_)
NodeWellFormed(node) ==
    /\ Len(node.children) \in {0, 8}
    /\ node.children # <<>> => node.count = SumCounts(node.children)
    /\ (node.children = <<>> /\ node.count = 1) => node.point # None
    /\ \A i \in 1..Len(node.children) : NodeWellFormed(node.children[i])

----------------------------------------------------------------------------
(* Claims on insertion, checked under Spec                                 *)

\* C1: after any sequence of add_point calls on a fresh tree in which no pair
\* of bodies triggers the merge policy, the root's aggregate mass is the sum of
\* the inserted masses and root.count is the number of add_point calls.
C1_ConservationNoMerge ==
    (last_next = <<>> /\ NoCloseEncounter(inserted)) =>
        /\ bht.root.center_of_mass.mass = TotalMass(inserted)
        /\ bht.root.count = Len(inserted)

\* C3: after any sequence of add_point calls, whatever the positions, every
\* node has 0 or 8 children, every node with children has count equal to the
\* sum of its children's counts, and every childless node with count 1 has a
\* stored point.
C3_StructuralInvariant == NodeWellFormed(bht.root)

\* C4: when add_to_child finds no child cube containing the body, the
\* insertion fails hard: a body is never logged as not contained while the
\* tree goes on being used.
C4_OutOfBoundsFailsHard == warned # <<>> => status = "panicked"

\* C5: two bodies inserted into an empty tree at a distance less than or equal
\* to the merge radius of at least one of them yield a root with count 1, no
\* children and a single stored point whose mass is the sum of both masses;
\* at any greater distance the two are not merged.
C5_MergeTwoBodies ==
    (last_next = <<>> /\ Len(inserted) = 2) =>
        IF WithinMergeRadius(inserted[1], inserted[2])
        THEN /\ bht.root.count = 1
             /\ bht.root.children = <<>>
             /\ bht.root.point # None
             /\ bht.root.point[1].mass = RAdd(inserted[1].mass, inserted[2].mass)
        ELSE /\ bht.root.children # <<>>
             /\ bht.root.point = None

\* C5 witness: two bodies merged at a distance equal to the radius of one of
\* them and beyond the radius of the other
C5_Witness ==
    /\ last_next = <<>>
    /\ Len(inserted) = 2
    /\ distance_sq(inserted[1], inserted[2]) = RSq(inserted[2].schwarzchild_radius)
    /\ ~RLe(distance_sq(inserted[1], inserted[2]), RSq(inserted[1].schwarzchild_radius))
    /\ bht.root.count = 1
    /\ bht.root.point[1].mass = R(3)

\* C7: after inserting bodies into an empty tree, the root aggregate position
\* is the mass-weighted mean of the inserted positions and the aggregate
\* velocity times the aggregate mass is the sum of the bodies' momenta; both
\* are sums over the bodies, hence the same for every insertion order.
C7_CenterOfMass ==
    (last_next = <<>> /\ inserted # <<>>) =>
        LET com == bht.root.center_of_mass
        IN  /\ com.mass = TotalMass(inserted)
            /\ PositionOf(com) = Vec3d_div(MassMoment(inserted), TotalMass(inserted))
            /\ Vec3d_mul(com.vel, com.mass) = Momentum(inserted)

\* C7 witness: three bodies of different masses inside the region, one of
\* them moving, with the aggregate off every one of them
C7_Witness ==
    /\ last_next = <<>>
    /\ Len(inserted) = 3
    /\ AllInRegion(bht, inserted)
    /\ inserted[1].mass # inserted[2].mass
    /\ inserted[3].vel # Vec3d_new_zero
    /\ bht.root.count = 3
    /\ \A i \in 1..3 : PositionOf(bht.root.center_of_mass) # PositionOf(inserted[i])

----------------------------------------------------------------------------
(* Claims on force evaluation and on next(), checked under SpecStep        *)

\* one body's merge radius is at least every pairwise distance of pts
AllWithinOneRadius(pts) ==
    \E k \in 1..Len(pts) :
        \A i, j \in 1..Len(pts) :
            RLe(distance_sq(pts[i], pts[j]), RSq(pts[k].schwarzchild_radius))

\* bht is the tree a next() call returned, untouched since
JustStepped == last_next # <<>> /\ inserted = last_next.new_points

\* C2: for exactly two bodies A and B inserted into a tree whose region holds
\* both and that did not merge, calculate_force from the root on A is the
\* direct two-body force of B on A, and likewise on B, whatever theta is.
C2_TwoBodyForce ==
    (/\ last_next = <<>>
     /\ Len(inserted) = 2
     /\ AllInRegion(bht, inserted)
     /\ bht.root.count = 2) =>
        /\ calculate_force(bht.root, inserted[1]) = force_from(inserted[1], inserted[2])
        /\ calculate_force(bht.root, inserted[2]) = force_from(inserted[2], inserted[1])

\* C6: if the tree holds several bodies that all lie within the merge radius
\* of one of them, the tree that next(dt) returns has root.count = 1.
C6_NextMergesAll ==
    (/\ JustStepped
     /\ Len(last_next.old_points) >= 2
     /\ AllWithinOneRadius(last_next.old_points)) =>
        bht.root.count = 1

\* C9: the root cube of the tree next(dt) returns, origin min - 1 on each
\* axis and edge max - min + 2, contains every updated body; re-insertion
\* logs no body as not contained; and the bodies the new tree enumerates
\* carry the same total mass as those of the old tree.
C9_RebuildKeepsBodies ==
    JustStepped =>
        /\ AllInRegion(bht, last_next.new_points)
        /\ last_next.warned = <<>>
        /\ TotalMass(get_points(bht.root).pts) = TotalMass(last_next.old_points)

\* C11: on every tree built by BHTree::new and any number of add_point
\* calls, zero included, get_points completes without panicking and returns
\* exactly root.count bodies, and a next(dt) called on such a tree does not
\* panic.
C11_GetPointsTotal ==
    last_next = <<>> =>
        /\ status = "ok" =>
               /\ ~get_points(bht.root).panic
               /\ Len(get_points(bht.root).pts) = bht.root.count
        /\ steps > 0 => status = "ok"

----------------------------------------------------------------------------
(* Claim on apply_force, checked under SpecApply                           *)

\* C8: apply_force(dt, force) returns a body whose velocity is the old
\* velocity + (force / mass) * dt, dt applied once, whose position is the old
\* position + the new velocity * dt, and whose mass is unchanged, for every dt.
C8_ApplyForce ==
    applied # <<>> /\ applied.out # None =>
        LET p == applied.p
            out == applied.out[1]
            v == Vec3d_add(p.vel, Vec3d_mul(Vec3d_div(applied.force, p.mass), applied.dt))
        IN  /\ out.vel = v
            /\ PositionOf(out) = Vec3d_add(PositionOf(p), Vec3d_mul(v, applied.dt))
            /\ out.mass = p.mass

----------------------------------------------------------------------------
(* Claim on the writer threads, checked under SpecMain                     *)

\* C10: every CSV file whose writer thread write_to_csv started has all its
\* rows written and flushed before the process exits: main does not return
\* while a spawned writer thread is unfinished.
C10_WritersFinishBeforeExit ==
    pc \in {"exited_ok", "exited_err"} =>
        \A i \in 1..Len(writers) :
            /\ writers[i].written = Len(writers[i].records)
            /\ writers[i].flushed

====
